---- MODULE Spec2Model ----
(***************************************************************************)
(* Model of the two scripts of the repository:                             *)
(*   zabka_fetcher.py  main / fetch_zabka_shops_wroclaw (spreadsheet)      *)
(*   zabka_gpt.py      the map script (module-level statements)            *)
(*                                                                         *)
(* Text is modelled as a sequence of character tokens.  The module is      *)
(* ASCII, so the letter Z-with-dot-above of the chain's name is the token  *)
(* "Zdot" and its lower case form is "zdot".  Coordinates are integers     *)
(* (decimal degrees scaled); every geometry of the input universe has an   *)
(* integral centroid, so the integer division in the centroid is exact.    *)
(***************************************************************************)
EXTENDS Integers, Sequences, FiniteSets

VARIABLES
    pc,            \* position in main / fetch_zabka_shops_wroclaw
    queries,       \* history of the collaborator calls made so far, in order
    zabka_shops,   \* the candidate collection [columns, rows]
    i,             \* position of the processing loop in zabka_shops.rows
    shop_data,     \* the list of records built so far
    centroid_calls,\* number of evaluations of geom.centroid so far
    df,            \* the sorted table, <<>> before it is built
    writes,        \* history of the calls of df.to_excel: [rows, ok]
    output,        \* the printed messages, as tags, in order
    result,        \* what fetch_zabka_shops_wroclaw returned
    mpc,           \* position in the map script
    edges,         \* the highway value of every edge of the road graph
    edges_major,   \* the filtered edges
    zabka_raw,     \* the geometries returned by the map script's shop query
    zabka_points,
    zabka_polygons,
    zabka_combined,
    plotted        \* the layers handed to the renderer

fvars == <<pc, queries, zabka_shops, i, shop_data, centroid_calls, df, writes,
           output, result>>
mvars == <<mpc, edges, edges_major, zabka_raw, zabka_points, zabka_polygons,
           zabka_combined, plotted>>
vars == <<fvars, mvars>>

MaxFeatures == 2
MaxEdges == 2

-----------------------------------------------------------------------------
(* Text and attribute values *)

Str(s) == [kind |-> "str", s |-> s]
NaN == [kind |-> "nan", s |-> <<>>]

Zabka == <<"Zdot", "a", "b", "k", "a">>
zabka == <<"zdot", "a", "b", "k", "a">>
ZABKA == <<"Zdot", "A", "B", "K", "A">>
Lidl == <<"L", "i", "d", "l">>
Rynek == <<"R", "y", "n", "e", "k">>
Five == <<"5">>
Placeholder == <<"A", "d", "r", "e", "s", " ", "n", "i", "e", "d", "o", "s",
                 "t", "e", "p", "n", "y">>

\* str(x) of an attribute value: a missing value prints as "nan"
ToStr(v) == IF v.kind = "nan" THEN <<"n", "a", "n">> ELSE v.s

\* bool(x) of an attribute value: a NaN float is true, a string is true
\* unless it is empty
Truthy(v) == IF v.kind = "nan" THEN TRUE ELSE Len(v.s) > 0

LowerChar(c) ==
    CASE c = "Zdot" -> "zdot"
      [] c = "A" -> "a"
      [] c = "B" -> "b"
      [] c = "K" -> "k"
      [] c = "L" -> "l"
      [] c = "R" -> "r"
      [] OTHER -> c

Lower(s) == [k \in DOMAIN s |-> LowerChar(s[k])]

IsSubstring(p, s) ==
    \E k \in 0..(Len(s) - Len(p)) : SubSeq(s, k + 1, k + Len(p)) = p

\* .astype(str).str.contains('Zabka|zabka', case=False, na=False)
NameMatches(v) ==
    \/ IsSubstring(Lower(Zabka), Lower(ToStr(v)))
    \/ IsSubstring(Lower(zabka), Lower(ToStr(v)))

-----------------------------------------------------------------------------
(* Geometries: [geom_type, parts]; parts is a sequence of coordinate       *)
(* sequences (one for a Point, LineString or Polygon ring, several for a   *)
(* MultiPolygon).  A feature without geometry has geometry NoGeometry.     *)

NoGeometry == [geom_type |-> "None", parts |-> <<>>]
PointA == [geom_type |-> "Point", parts |-> << << <<3, 1>> >> >>]
Square == << <<0, 0>>, <<2, 0>>, <<2, 2>>, <<0, 2>> >>
SquareE == << <<4, 0>>, <<6, 0>>, <<6, 2>>, <<4, 2>> >>
PolygonA == [geom_type |-> "Polygon", parts |-> <<Square>>]
MultiPolygonA == [geom_type |-> "MultiPolygon", parts |-> <<Square, SquareE>>]
LineStringA ==
    [geom_type |-> "LineString", parts |-> << << <<0, 0>>, <<6, 8>>, <<16, 8>> >> >>]

Abs(n) == IF n < 0 THEN -n ELSE n

RECURSIVE SumTo(_, _)
\* f[1] + ... + f[n]
SumTo(f, n) == IF n = 0 THEN 0 ELSE f[n] + SumTo(f, n - 1)

Nxt(ring, k) == ring[(k % Len(ring)) + 1]
Cross(ring, k) == ring[k][1] * Nxt(ring, k)[2] - Nxt(ring, k)[1] * ring[k][2]
\* twice the signed area of a ring
Area2(ring) == SumTo([k \in 1..Len(ring) |-> Cross(ring, k)], Len(ring))
\* six times the signed first moment of a ring, along axis c
Moment6(ring, c) ==
    SumTo([k \in 1..Len(ring) |-> (ring[k][c] + Nxt(ring, k)[c]) * Cross(ring, k)],
          Len(ring))
Sign(n) == IF n < 0 THEN -1 ELSE 1

\* the integer square root; exact on the squares, which is what every
\* segment of the input universe gives
ISqrt(n) == CHOOSE r \in 0..n : r * r <= n /\ n < (r + 1) * (r + 1)

\* the Euclidean length of segment k of a line, the weight of the segment in
\* the line's centroid
SegLen(line, k) ==
    ISqrt((line[k + 1][1] - line[k][1]) * (line[k + 1][1] - line[k][1])
          + (line[k + 1][2] - line[k][2]) * (line[k + 1][2] - line[k][2]))

\* geom.centroid, axis c (1 = x, 2 = y)
CentroidAxis(g, c) ==
    CASE g.geom_type = "Point" -> g.parts[1][1][c]
      [] g.geom_type \in {"Polygon", "MultiPolygon"} ->
            SumTo([r \in 1..Len(g.parts) |->
                      Sign(Area2(g.parts[r])) * Moment6(g.parts[r], c)],
                  Len(g.parts))
            \div
            (3 * SumTo([r \in 1..Len(g.parts) |-> Abs(Area2(g.parts[r]))],
                       Len(g.parts)))
      [] OTHER ->
            LET line == g.parts[1]
                n == Len(line) - 1
            IN  SumTo([k \in 1..n |-> SegLen(line, k) * (line[k][c] + line[k + 1][c])], n)
                \div (2 * SumTo([k \in 1..n |-> SegLen(line, k)], n))

Centroid(g) == <<CentroidAxis(g, 1), CentroidAxis(g, 2)>>

-----------------------------------------------------------------------------
(* Feature collections: [columns, rows]; every row is [geometry, tags]     *)
(* with tags a function on the collection's attribute columns.  An         *)
(* attribute is absent on a feature when the column is missing from the    *)
(* collection or when the row holds NaN in it.                             *)

AttrNames == {"name", "addr:street", "addr:housenumber"}

TagValues(c) ==
    CASE c = "name" -> {Str(Zabka), Str(ZABKA), Str(Lidl), NaN}
      [] c = "addr:street" -> {Str(Rynek), NaN}
      [] OTHER -> {Str(Five), NaN}

AllTagValues == UNION {TagValues(c) : c \in AttrNames}

BaseTag(c) ==
    CASE c = "name" -> Str(Zabka)
      [] c = "addr:street" -> Str(Rynek)
      [] OTHER -> Str(Five)

FetcherGeometries == {NoGeometry, PointA, PolygonA, MultiPolygonA, LineStringA}

\* The features a query may return: every geometry with the base tags, and
\* every combination of tag values on the point geometry.
Features(cols) ==
    {[geometry |-> g, tags |-> [c \in cols |-> BaseTag(c)]] : g \in FetcherGeometries}
    \cup
    {[geometry |-> PointA, tags |-> t] :
        t \in {u \in [cols -> AllTagValues] : \A c \in cols : u[c] \in TagValues(c)}}

SeqsUpTo(S, n) == UNION {[1..k -> S] : k \in 0..n}

Collections ==
    UNION {{[columns |-> cols, rows |-> rows] :
               rows \in SeqsUpTo(Features(cols), MaxFeatures)} :
           cols \in SUBSET AttrNames}

\* what a call of ox.features_from_place can do: raise, or return a collection
Raised == [raised |-> TRUE, columns |-> {}, rows |-> <<>>]
QueryOutcomes ==
    {Raised} \cup
    {[raised |-> FALSE, columns |-> c.columns, rows |-> c.rows] : c \in Collections}

EmptyCollection == [columns |-> {}, rows |-> <<>>]

\* pois['name'] raises KeyError when the collection has no name column
NameColumnMissing(coll) == "name" \notin coll.columns

\* pois[pois['name'].astype(str).str.contains(...)].copy()
FilterByName(coll) ==
    [columns |-> coll.columns,
     rows |-> SelectSeq(coll.rows, LAMBDA f : NameMatches(f.tags["name"]))]

\* pois_alt.copy()
CopyOf(coll) == [columns |-> coll.columns, rows |-> coll.rows]

\* the try block of one tier: does the query, or the filter after it, raise
TierRaises(outcome, filtered) ==
    outcome.raised \/ (filtered /\ NameColumnMissing(outcome))

TierCandidates(outcome, filtered) ==
    IF filtered THEN FilterByName(outcome) ELSE CopyOf(outcome)

\* mutant of AfterTier: the next tier is queried whatever the result
AfterTierAlwaysEscalates(candidates, nextTier) == nextTier

\* "if len(zabka_shops) == 0:" after a tier: escalate to the next tier, or
\* go on to the check that follows the try block
AfterTier(candidates, nextTier) ==
    IF Len(candidates.rows) = 0 THEN nextTier ELSE "check"

\* mutant of AfterFetchError: the return is missing and the shop search runs
AfterFetchErrorFallsThrough == "tier1"

\* the except clauses around the queries: report and return
AfterFetchError == "returned"

QLog(q, raised, kept) == [q |-> q, raised |-> raised, kept |-> kept]

-----------------------------------------------------------------------------
(* Geometry Normalizer and Record Builder *)

\* shop.geometry.geom_type raises when the feature has no geometry
ShopRaises(shop) == shop.geometry.geom_type = "None"

\* mutant of GeometryNormalizer: the centroid is taken of every geometry
GeometryNormalizerAlwaysCentroid(geom) ==
    [lon |-> Centroid(geom)[1], lat |-> Centroid(geom)[2], centroids |-> 1]

\* lines 85-93: [lon, lat, centroids], centroids the number of evaluations
\* of geom.centroid
GeometryNormalizer(geom) ==
    IF geom.geom_type = "Point"
    THEN [lon |-> geom.parts[1][1][1], lat |-> geom.parts[1][1][2], centroids |-> 0]
    ELSE IF geom.geom_type \in {"Polygon", "MultiPolygon"}
    THEN [lon |-> Centroid(geom)[1], lat |-> Centroid(geom)[2], centroids |-> 1]
    ELSE [lon |-> Centroid(geom)[1], lat |-> Centroid(geom)[2], centroids |-> 1]

\* shop.get(key, default)
Get(shop, key, default) ==
    IF key \in DOMAIN shop.tags THEN shop.tags[key] ELSE default

\* lines 99-107
ComposeAddress(shop) ==
    LET street == Get(shop, "addr:street", Str(<<>>))
        house_number == Get(shop, "addr:housenumber", Str(<<>>))
    IN  IF Truthy(street) /\ Truthy(house_number)
        THEN Str(ToStr(street) \o <<" ">> \o ToStr(house_number))
        ELSE IF Truthy(street)
        THEN street
        ELSE Str(Placeholder)

BuildRecord(shop) ==
    [geographical_longitude |-> GeometryNormalizer(shop.geometry).lon,
     geographical_latitude |-> GeometryNormalizer(shop.geometry).lat,
     address |-> ComposeAddress(shop),
     name |-> Get(shop, "name", Str(Zabka))]

\* mutant of AfterShopError: the failure ends the loop
AfterShopErrorBreaks(k) == Len(zabka_shops.rows) + 1

\* the except clause of the loop body: log and continue with the next feature
AfterShopError(k) == k + 1

-----------------------------------------------------------------------------
(* Tabular sink *)

RECURSIVE InsertSorted(_, _)
InsertSorted(r, s) ==
    IF s = <<>> THEN <<r>>
    ELSE IF r.geographical_longitude < Head(s).geographical_longitude
         THEN <<r>> \o s
         ELSE <<Head(s)>> \o InsertSorted(r, Tail(s))

\* mutant of SortValues: the table is written in build order
SortValuesKeepsOrder(s) == s

RECURSIVE SortValues(_)
\* df.sort_values('geographical_longitude').reset_index(drop=True); equal
\* longitudes keep their order
SortValues(s) ==
    IF s = <<>> THEN <<>>
    ELSE InsertSorted(s[Len(s)], SortValues(SubSeq(s, 1, Len(s) - 1)))

\* mutant of AfterProcessing: the empty test is missing
AfterProcessingAlwaysExports(records) == "export"

\* "if not shop_data:" at line 120
AfterProcessing(records) == IF records = <<>> THEN "returned" ELSE "export"

FileWritten == \E k \in DOMAIN writes : writes[k].ok

-----------------------------------------------------------------------------
(* zabka_fetcher.py: main and fetch_zabka_shops_wroclaw *)

FetcherIdle ==
    /\ pc = "main"
    /\ queries = <<>>
    /\ zabka_shops = EmptyCollection
    /\ i = 1
    /\ shop_data = <<>>
    /\ centroid_calls = 0
    /\ df = <<>>
    /\ writes = <<>>
    /\ output = <<>>
    /\ result = "unset"

\* main, lines 155-171: the banner and the package check
MainStart ==
    /\ pc = "main"
    /\ \E importsOk \in BOOLEAN :
          IF importsOk
          THEN /\ output' = output \o <<"banner", "packages_ok">>
               /\ pc' = "boundary"
          ELSE /\ output' = output \o <<"banner", "missing_package">>
               /\ pc' = "exit"
    /\ UNCHANGED <<queries, zabka_shops, i, shop_data, centroid_calls, df, writes,
                   result, mvars>>

\* lines 13-23
FetchBoundary ==
    /\ pc = "boundary"
    /\ \E raised \in BOOLEAN :
          /\ queries' = Append(queries, QLog("boundary", raised, -1))
          /\ IF raised
             THEN /\ output' = output \o <<"fetching_boundary", "error_boundary">>
                  /\ pc' = AfterFetchError
                  /\ result' = IF AfterFetchError = "returned" THEN "None" ELSE result
             ELSE /\ output' = output \o <<"fetching_boundary", "boundary_ok", "searching">>
                  /\ pc' = "tier1"
                  /\ result' = result
    /\ UNCHANGED <<zabka_shops, i, shop_data, centroid_calls, df, writes, mvars>>

\* One tier of the try block of lines 34-65: the query, what is printed
\* when it returns (queried), the filter (tiers 1 and 3), the assignment of
\* zabka_shops, what is printed then (found) and the length test that
\* follows.  A KeyError of the filter comes after the prints of queried.
Tier(here, filtered, nextTier, queried, found, escalating) ==
    /\ pc = here
    /\ \E outcome \in QueryOutcomes :
          IF TierRaises(outcome, filtered)
          THEN /\ queries' = Append(queries, QLog(here, outcome.raised, -1))
               /\ output' = output \o (IF outcome.raised THEN <<>> ELSE queried)
                            \o <<"error_poi">>
               /\ pc' = AfterFetchError
               /\ result' = IF AfterFetchError = "returned" THEN "None" ELSE result
               /\ UNCHANGED zabka_shops
          ELSE LET candidates == TierCandidates(outcome, filtered)
               IN  /\ queries' = Append(queries, QLog(here, FALSE, Len(candidates.rows)))
                   /\ zabka_shops' = candidates
                   /\ pc' = AfterTier(candidates, nextTier)
                   /\ output' = output \o queried \o found
                                \o (IF AfterTier(candidates, nextTier) = "check"
                                    THEN <<>> ELSE escalating)
                   /\ result' = result
    /\ UNCHANGED <<i, shop_data, centroid_calls, df, writes, mvars>>

\* lines 36-46
Tier1 ==
    Tier("tier1", TRUE, "tier2", <<"found">>, <<"filtered">>, <<"trying_alternative">>)
\* lines 49-55
Tier2 ==
    Tier("tier2", FALSE, "tier3", <<>>, <<"alternative_found">>, <<"trying_shop_specific">>)
\* lines 57-61
Tier3 == Tier("tier3", TRUE, "check", <<>>, <<"shop_specific_found">>, <<>>)

\* lines 67-77
CheckCandidates ==
    /\ pc = "check"
    /\ IF Len(zabka_shops.rows) = 0
       THEN /\ output' = Append(output, "no_shops_found")
            /\ pc' = "returned"
            /\ result' = "None"
       ELSE /\ output' = Append(output, "processing")
            /\ pc' = "loop"
            /\ result' = result
    /\ UNCHANGED <<queries, zabka_shops, i, shop_data, centroid_calls, df, writes, mvars>>

\* one iteration of the loop of lines 79-118
ProcessShop ==
    /\ pc = "loop"
    /\ i <= Len(zabka_shops.rows)
    /\ LET shop == zabka_shops.rows[i]
       IN  IF ShopRaises(shop)
           THEN /\ output' = Append(output, "error_shop")
                /\ i' = AfterShopError(i)
                /\ UNCHANGED <<shop_data, centroid_calls>>
           ELSE /\ shop_data' = Append(shop_data, BuildRecord(shop))
                /\ centroid_calls' =
                       centroid_calls + GeometryNormalizer(shop.geometry).centroids
                /\ i' = i + 1
                /\ UNCHANGED output
    /\ UNCHANGED <<pc, queries, zabka_shops, df, writes, result, mvars>>

\* the loop is exhausted: lines 120-130
FinishProcessing ==
    /\ pc = "loop"
    /\ i > Len(zabka_shops.rows)
    /\ pc' = AfterProcessing(shop_data)
    /\ IF AfterProcessing(shop_data) = "returned"
       THEN /\ output' = Append(output, "no_valid_data")
            /\ result' = "None"
            /\ UNCHANGED df
       ELSE /\ df' = SortValues(shop_data)
            /\ output' = Append(output, "processed")
            /\ UNCHANGED result
    /\ UNCHANGED <<queries, zabka_shops, i, shop_data, centroid_calls, writes, mvars>>

\* what the function returns after to_excel: the table is returned from the
\* except clause only (line 151); the try block falls off the end
ExportResult(ok) == IF ok THEN "None" ELSE "df"

\* lines 133-151
Export ==
    /\ pc = "export"
    /\ \E ok \in BOOLEAN :
          /\ writes' = Append(writes, [rows |-> df, ok |-> ok])
          /\ output' = output \o (IF ok THEN <<"saved", "summary">>
                                   ELSE <<"error_saving">>)
          /\ result' = ExportResult(ok)
    /\ pc' = "returned"
    /\ UNCHANGED <<queries, zabka_shops, i, shop_data, centroid_calls, df, mvars>>

\* main, lines 173-176
MainReport ==
    /\ pc = "returned"
    /\ output' = Append(output, IF result # "None" THEN "success" ELSE "issues")
    /\ pc' = "exit"
    /\ UNCHANGED <<queries, zabka_shops, i, shop_data, centroid_calls, df, writes,
                   result, mvars>>

-----------------------------------------------------------------------------
(* zabka_gpt.py: the map script.  Its statements run in order at module    *)
(* level; nothing catches an exception, so a failing query ends the run.   *)

\* The highway attribute of an edge: one classification (is_list FALSE,
\* items of length 1) or a list of classifications.
Single(c) == [is_list |-> FALSE, items |-> <<c>>]
ListOf(cs) == [is_list |-> TRUE, items |-> cs]

HighwayValues ==
    {Single("primary"), Single("residential"), Single("service"),
     ListOf(<<"primary", "residential">>), ListOf(<<"residential", "service">>),
     ListOf(<<"residential", "tertiary">>)}

important_highways == <<"motorway", "trunk", "primary", "secondary", "tertiary">>

InList(hw, items) == \E k \in DOMAIN items : items[k] = hw

\* One element of the generator of line 22.  The conditional expression
\* binds weaker than "in": the element is (hw in x) for a list x and the
\* one-element list [x] otherwise, whose truth value is that of a
\* non-empty list.
GeneratorElement(hw, x) ==
    IF x.is_list THEN InList(hw, x.items) ELSE Len(<<x.items[1]>>) > 0

\* the lambda of line 22
KeepEdge(x) ==
    \E k \in DOMAIN important_highways : GeneratorElement(important_highways[k], x)

MapGeometries == {PointA, PolygonA, MultiPolygonA, LineStringA}

\* the geometry of a row after "zabka_polygons['geometry'] = zabka_polygons.centroid"
CentroidPoint(g) == [geom_type |-> "Point", parts |-> << <<Centroid(g)>> >>]

\* line 14
MapFetchBoundary ==
    /\ mpc = "start"
    /\ \E raised \in BOOLEAN : mpc' = IF raised THEN "crashed" ELSE "roads"
    /\ UNCHANGED <<edges, edges_major, zabka_raw, zabka_points, zabka_polygons,
                   zabka_combined, plotted, fvars>>

\* lines 17-18
MapFetchRoads ==
    /\ mpc = "roads"
    /\ \/ /\ mpc' = "crashed"
          /\ UNCHANGED edges
       \/ /\ \E e \in SeqsUpTo(HighwayValues, MaxEdges) : edges' = e
          /\ mpc' = "filter"
    /\ UNCHANGED <<edges_major, zabka_raw, zabka_points, zabka_polygons,
                   zabka_combined, plotted, fvars>>

\* lines 20-23
MapFilterRoads ==
    /\ mpc = "filter"
    /\ edges_major' = SelectSeq(edges, KeepEdge)
    /\ mpc' = "rivers"
    /\ UNCHANGED <<edges, zabka_raw, zabka_points, zabka_polygons, zabka_combined,
                   plotted, fvars>>

\* line 26
MapFetchRivers ==
    /\ mpc = "rivers"
    /\ \E raised \in BOOLEAN : mpc' = IF raised THEN "crashed" ELSE "shops"
    /\ UNCHANGED <<edges, edges_major, zabka_raw, zabka_points, zabka_polygons,
                   zabka_combined, plotted, fvars>>

\* lines 29-30
MapFetchShops ==
    /\ mpc = "shops"
    /\ \/ /\ mpc' = "crashed"
          /\ UNCHANGED zabka_raw
       \/ /\ \E raw \in SeqsUpTo(MapGeometries, MaxFeatures) : zabka_raw' = raw
          /\ mpc' = "split"
    /\ UNCHANGED <<edges, edges_major, zabka_points, zabka_polygons, zabka_combined,
                   plotted, fvars>>

IsPointRow(g) == g.geom_type = "Point"
IsPolygonRow(g) == g.geom_type = "Polygon"

\* lines 33-43: split by geometry type, centroids of the polygon part,
\* concatenation
MapCombine ==
    /\ mpc = "split"
    /\ zabka_points' = SelectSeq(zabka_raw, IsPointRow)
    /\ zabka_polygons' =
          LET polys == SelectSeq(zabka_raw, IsPolygonRow)
          IN  [k \in DOMAIN polys |-> CentroidPoint(polys[k])]
    /\ zabka_combined' = zabka_points' \o zabka_polygons'
    /\ mpc' = "render"
    /\ UNCHANGED <<edges, edges_major, zabka_raw, plotted, fvars>>

\* lines 46-64
MapRender ==
    /\ mpc = "render"
    /\ plotted' = <<[roads |-> edges_major, shops |-> zabka_combined]>>
    /\ mpc' = "done"
    /\ UNCHANGED <<edges, edges_major, zabka_raw, zabka_points, zabka_polygons,
                   zabka_combined, fvars>>

MapIdle ==
    /\ mpc = "start"
    /\ edges = <<>>
    /\ edges_major = <<>>
    /\ zabka_raw = <<>>
    /\ zabka_points = <<>>
    /\ zabka_polygons = <<>>
    /\ zabka_combined = <<>>
    /\ plotted = <<>>

Init == FetcherIdle /\ MapIdle

Next ==
    \/ MainStart
    \/ FetchBoundary
    \/ Tier1
    \/ Tier2
    \/ Tier3
    \/ CheckCandidates
    \/ ProcessShop
    \/ FinishProcessing
    \/ Export
    \/ MainReport

Spec == Init /\ [][Next]_vars

MapNext ==
    \/ MapFetchBoundary
    \/ MapFetchRoads
    \/ MapFilterRoads
    \/ MapFetchRivers
    \/ MapFetchShops
    \/ MapCombine
    \/ MapRender

SpecMap == Init /\ [][MapNext]_vars

-----------------------------------------------------------------------------
(* Properties of zabka_fetcher.py, checked under Spec *)

Issued(q) == \E k \in DOMAIN queries : queries[k].q = q
\* the query q was issued, returned, and left n candidates
Left(q, n) ==
    \E k \in DOMAIN queries :
        queries[k].q = q /\ ~queries[k].raised /\ queries[k].kept = n
Printed(tag) == \E k \in DOMAIN output : output[k] = tag
\* the number of elements of the sequence s that are in the set S
Count(s, S) == Cardinality({k \in DOMAIN s : s[k] \in S})
Rows == zabka_shops.rows
Range(s) == {s[k] : k \in DOMAIN s}
Succeeds(f) == ~ShopRaises(f)

\* C1: the three shop queries form a strict sequential fallback.  Tier 2 is
\* issued (or is the very next step) exactly when tier 1 returned and its
\* filtered result is empty; tier 3 exactly when tier 2 was issued and
\* returned an empty result; the zero-results report is printed only after
\* all three tiers were queried and each left no candidate; a tier that
\* leaves candidates is the last query ever issued.
C1_SequentialFallback ==
    /\ (Issued("tier2") \/ pc = "tier2") <=> Left("tier1", 0)
    /\ (Issued("tier3") \/ pc = "tier3") <=> (Issued("tier2") /\ Left("tier2", 0))
    /\ Printed("no_shops_found") =>
          Left("tier1", 0) /\ Left("tier2", 0) /\ Left("tier3", 0)
    /\ \A k \in DOMAIN queries : queries[k].kept > 0 => k = Len(queries)
    /\ \A k \in DOMAIN queries :
          queries[k].q = <<"boundary", "tier1", "tier2", "tier3">>[k]

C1_Witness ==
    /\ pc = "exit"
    /\ Printed("no_shops_found")
    /\ Len(queries) = 4

Present(shop, c) == c \in DOMAIN shop.tags /\ shop.tags[c].kind = "str"
AddressAsSpecified(shop, address) ==
    LET hasStreet == Present(shop, "addr:street")
        hasNumber == Present(shop, "addr:housenumber")
    IN  /\ hasStreet /\ hasNumber =>
              address = Str(shop.tags["addr:street"].s \o <<" ">>
                            \o shop.tags["addr:housenumber"].s)
        /\ hasStreet /\ ~hasNumber => address = shop.tags["addr:street"]
        /\ ~hasStreet /\ ~hasNumber => address = Str(Placeholder)
\* C2: the address of the record built from a feature is street, a space
\* and house number when both are present, the street alone when only the
\* street is present, and the placeholder when neither is present, where an
\* attribute is absent when its column is missing or its value is NaN.
C2_AddressByPriority ==
    (pc = "loop" /\ i > 1 /\ Succeeds(Rows[i - 1])) =>
        AddressAsSpecified(Rows[i - 1], shop_data[Len(shop_data)].address)

IsPermutation(s, u) ==
    /\ Len(s) = Len(u)
    /\ \A k \in DOMAIN s :
          Cardinality({j \in DOMAIN s : s[j] = s[k]})
              = Cardinality({j \in DOMAIN u : u[j] = s[k]})
NonDecreasing(s) ==
    \A k \in 1..(Len(s) - 1) :
        s[k].geographical_longitude <= s[k + 1].geographical_longitude
\* C4: the rows handed to the spreadsheet writer are a permutation of the
\* records built by the loop and are non-decreasing in longitude.
C4_SortedPermutation ==
    \A k \in DOMAIN writes :
        /\ IsPermutation(writes[k].rows, shop_data)
        /\ NonDecreasing(writes[k].rows)

C4_Witness ==
    /\ FileWritten
    /\ Len(shop_data) >= 2
    /\ shop_data[1].geographical_longitude > shop_data[2].geographical_longitude

FetchFailed == Printed("error_boundary") \/ Printed("error_poi")
\* C5: when the run gets past the queries and ends with no record (no
\* candidate after the three tiers, or every candidate skipped), no write
\* of the spreadsheet was attempted, an empty-result message was printed
\* and the function returned None.
C5_EmptyExport ==
    (pc \in {"returned", "exit"} /\ result # "unset" /\ ~FetchFailed
        /\ shop_data = <<>>) =>
        /\ writes = <<>>
        /\ Printed("no_shops_found") \/ Printed("no_valid_data")
        /\ result = "None"

C5_Witness ==
    /\ pc = "exit"
    /\ Len(Rows) = MaxFeatures
    /\ shop_data = <<>>
    /\ Printed("no_valid_data")

\* C6: a query that raises is the last query of the run: the error is
\* printed, no record is built, no table is made and no write is attempted;
\* and no query is issued twice.
C6_FetchFailureAborts ==
    /\ \A k \in DOMAIN queries :
          queries[k].raised =>
              /\ k = Len(queries)
              /\ Printed(IF queries[k].q = "boundary" THEN "error_boundary"
                                                      ELSE "error_poi")
              /\ shop_data = <<>>
              /\ df = <<>>
              /\ writes = <<>>
              /\ pc \in {"returned", "exit"}
              /\ result = "None"
    /\ \A j, k \in DOMAIN queries : queries[j].q = queries[k].q => j = k

C6_Witness ==
    /\ pc = "exit"
    /\ Len(queries) = 3
    /\ queries[3].raised

BuiltFrom(s) ==
    LET good == SelectSeq(s, Succeeds)
    IN  [k \in DOMAIN good |-> BuildRecord(good[k])]
LoopDone == Printed("processed") \/ Printed("no_valid_data")
\* C7: the loop visits every candidate; the records are those of the
\* candidates that did not raise, in iteration order, one each, and one
\* error is logged for each candidate that raised.
C7_SkipAndContinue ==
    /\ pc = "loop" =>
          /\ i \in 1..(Len(Rows) + 1)
          /\ shop_data = BuiltFrom(SubSeq(Rows, 1, i - 1))
          /\ Count(output, {"error_shop"})
                = Count(SubSeq(Rows, 1, i - 1), {f \in Range(Rows) : ShopRaises(f)})
    /\ LoopDone =>
          /\ i = Len(Rows) + 1
          /\ shop_data = BuiltFrom(Rows)
          /\ Len(shop_data) = Count(Rows, {f \in Range(Rows) : Succeeds(f)})

C7_Witness ==
    /\ LoopDone
    /\ Len(Rows) >= 2
    /\ ShopRaises(Rows[1])
    /\ Succeeds(Rows[2])
    /\ Len(shop_data) = Len(Rows) - 1

IsPoint(f) == f.geometry.geom_type = "Point"
NeedsCentroid(f) == Succeeds(f) /\ ~IsPoint(f)
\* C8: the record of a Point feature carries the point's own coordinates
\* and no centroid is computed for it; the record of any other geometry
\* carries the coordinates of its centroid, computed once; every processed
\* feature yields one coordinate pair.
C8_GeometryDispatch ==
    (pc = "loop" /\ i > 1) =>
        /\ centroid_calls = Count(SubSeq(Rows, 1, i - 1), {f \in Range(Rows) : NeedsCentroid(f)})
        /\ Len(shop_data) = Count(SubSeq(Rows, 1, i - 1), {f \in Range(Rows) : Succeeds(f)})
        /\ Succeeds(Rows[i - 1]) =>
              LET g == Rows[i - 1].geometry
                  r == shop_data[Len(shop_data)]
                  at == <<r.geographical_longitude, r.geographical_latitude>>
              IN  IF g.geom_type = "Point"
                  THEN at = g.parts[1][1]
                  ELSE at = Centroid(g)

C8_Witness ==
    /\ pc = "loop"
    /\ i = 3
    /\ Rows[1].geometry.geom_type = "Point"
    /\ Rows[2].geometry.geom_type = "MultiPolygon"
    /\ centroid_calls = 1

\* C10: main prints the success message exactly when the spreadsheet was
\* written, and the issues message in every run of the fetcher that ends
\* without the file.
C10_SuccessIffWritten ==
    (pc = "exit" /\ result # "unset") =>
        /\ Printed("success") <=> FileWritten
        /\ ~FileWritten => Printed("issues")

-----------------------------------------------------------------------------
(* Properties of zabka_gpt.py, checked under SpecMap *)

Filtered == mpc \in {"rivers", "shops", "split", "render", "done"}
IsMajor(x) ==
    \E k \in DOMAIN x.items : InList(x.items[k], important_highways)

\* C3: the filtered edges are exactly the edges whose highway value, a
\* single classification or a list, has an entry in the allow-list.
C3_MajorRoadFilter ==
    Filtered => edges_major = SelectSeq(edges, IsMajor)

ReducedToPoint(g) == IF g.geom_type = "Point" THEN g ELSE CentroidPoint(g)
\* C9: the shop layer handed to the renderer holds every fetched feature
\* exactly once, a point as itself and any other geometry as its centroid.
C9_CombinedLayerComplete ==
    mpc = "done" =>
        IsPermutation(plotted[1].shops,
                      [k \in DOMAIN zabka_raw |-> ReducedToPoint(zabka_raw[k])])

====
